---- MODULE Spec2Model ----
(***************************************************************************)
(* Model of src/app/lib/pdf2img.ts: convertPdfToImage(file).               *)
(*                                                                         *)
(* Several calls of the async function run interleaved on one event loop.  *)
(* Code between two suspension points runs atomically, so there is one     *)
(* action per suspension point: the action is the continuation that runs   *)
(* when the awaited collaborator settles (or calls back).                  *)
(*                                                                         *)
(* Strings the code concatenates are sequences of non-empty pieces (the    *)
(* empty string is <<>>, concatenation is \o); file names are sequences of *)
(* characters.                                                             *)
(***************************************************************************)
EXTENDS Integers, Sequences, FiniteSets, TLC

\* ---------------------------------------------------------------- bounds
NumCalls == 2
MaxNameLen == 5
MaxPageHalfPts == 2

\* ------------------------------------------------------------- constants
scale == 3

Calls == 1..NumCalls

Str(s) == IF s = "" THEN <<>> ELSE <<s>>

SsrError == Str("PDF conversion must run in the browser (DOM APIs not available).")
CatchPrefix == Str("Failed to convert PDF: ")
BlobError == Str("Failed to create image blob")
ContextErrorMessage == Str("Failed to get 2D canvas context")
PngType == "image/png"
PngSuffix == <<".", "p", "n", "g">>

\* pdfWorker.default: the worker asset's URL, the same module value in every call
WorkerUrl == "/assets/pdf.worker.min.mjs"
\* GlobalWorkerOptions.workerSrc before any call has run
UnsetWorkerSrc == ""

\* ------------------------------------------------------------ exceptions
\* A thrown value: message is err.message ("" or undefined: <<>>), str is String(err).
NoError == [hasMessage |-> FALSE, message |-> <<>>, str |-> <<>>]

ErrorObject(name, msg) ==
    [hasMessage |-> TRUE, message |-> Str(msg),
     str |-> IF msg = "" THEN Str(name) ELSE Str(name) \o Str(": ") \o Str(msg)]

ThrownString(s) == [hasMessage |-> FALSE, message |-> <<>>, str |-> Str(s)]

\* What a collaborator may throw or reject with.
Throwables ==
    { ErrorObject("InvalidPDFException", "Invalid PDF structure."),
      ErrorObject("Error", ""),
      ThrownString("out of memory"),
      ThrownString("") }

\* new Error("Failed to get 2D canvas context")
ContextError ==
    [hasMessage |-> TRUE, message |-> ContextErrorMessage,
     str |-> Str("Error") \o Str(": ") \o ContextErrorMessage]

\* ---------------------------------------------------------------- results
NullFile == [isNull |-> TRUE, name |-> <<>>, type |-> "", blob |-> 0]

NoResult == [imageUrl |-> <<>>, file |-> NullFile, hasError |-> FALSE, error |-> <<>>]

Failure(msg) == [imageUrl |-> <<>>, file |-> NullFile, hasError |-> TRUE, error |-> msg]

SsrResult == Failure(SsrError)

BlobFailurePrefixed == Failure(CatchPrefix \o BlobError)

BlobFailureNoError == [imageUrl |-> <<>>, file |-> NullFile, hasError |-> FALSE, error |-> <<>>]

BlobFailureResult == Failure(BlobError)

\* `${err.message || err}`
ErrorText(err) ==
    IF err.hasMessage /\ err.message # <<>> THEN err.message ELSE err.str

CatchResult(err) == Failure(CatchPrefix \o ErrorText(err))

SuccessResult(url, imageFile) ==
    [imageUrl |-> url, file |-> imageFile, hasError |-> FALSE, error |-> <<>>]

\* ------------------------------------------------------------- file names
ToLowerChar(ch) ==
    CASE ch = "P" -> "p"
      [] ch = "D" -> "d"
      [] ch = "F" -> "f"
      [] OTHER -> ch

ToLower(s) == [i \in 1..Len(s) |-> ToLowerChar(s[i])]

PdfSuffix == <<".", "p", "d", "f">>

\* name.replace(/\.pdf$/, ""): the i flag dropped
BaseNameCaseSensitive(name) ==
    IF Len(name) >= 4 /\ SubSeq(name, Len(name) - 3, Len(name)) = PdfSuffix
    THEN SubSeq(name, 1, Len(name) - 4)
    ELSE name

\* file.name.replace(/\.pdf$/i, "")
BaseName(name) ==
    IF Len(name) >= 4 /\ ToLower(SubSeq(name, Len(name) - 3, Len(name))) = PdfSuffix
    THEN SubSeq(name, 1, Len(name) - 4)
    ELSE name

\* new File([blob], `${baseName}.png`, { type: "image/png" })
ImageFile(name, b) ==
    [isNull |-> FALSE, name |-> BaseName(name) \o PngSuffix, type |-> PngType, blob |-> b]

\* URL.createObjectURL(blob): a fresh non-empty blob: URL
ObjectUrl(b) == Str("blob:") \o Str(ToString(b))

\* ---------------------------------------------------------------- inputs
NameChars == {".", "p", "d", "f", "P", "x"}

SeqsUpTo(S, n) == UNION { [1..k -> S] : k \in 0..n }

ExampleNames ==
    { <<"i", "n", "v", "o", "i", "c", "e", ".", "P", "D", "F">>,
      <<"r", "e", "p", "o", "r", "t">> }

Names == ExampleNames \cup SeqsUpTo(NameChars, MaxNameLen)

\* The names of the files passed by the interleaved calls.
CallNames == { <<"x", ".", "P", "d", "f">>, <<"x", ".", "p", "d", "f", "x">> }

\* Page sizes in half points.
PageSizes == (1..MaxPageHalfPts) \X (1..MaxPageHalfPts)

\* page.getViewport({ scale }): sizes in half pixels
Viewport(page) == [width |-> page[1] * scale, height |-> page[2] * scale]

\* canvas.width = v: the DOM keeps the integer part (unsigned long)
ToUnsignedLong(halfPixels) == halfPixels \div 2

\* What the collaborators may answer: the names of the files passed in, the
\* sizes of page 1, what is thrown or rejected with, how a rendering ends.
World ==
    [names |-> CallNames, pages |-> PageSizes, throws |-> Throwables,
     renders |-> {"completed", "failed"}]

ConcurrentWorld ==
    [names |-> CallNames, pages |-> {<<1, 2>>},
     throws |-> {ErrorObject("InvalidPDFException", "Invalid PDF structure.")},
     renders |-> {"completed", "failed"}]

SoloCalls == {1}

NoCanvas == [created |-> FALSE, context |-> FALSE, width |-> 0, height |-> 0]

NoViewport == [width |-> 0, height |-> 0]

VARIABLES
    env,         \* which of window, document are defined
    workerSrc,   \* pdfjsLib.GlobalWorkerOptions.workerSrc
    urlStore,    \* the browser's live object URLs
    pc,          \* per call: the suspension point it waits at
    file,        \* per call: the name of the input File
    promise,     \* per call: the promise convertPdfToImage returned
    ops,         \* per call: the collaborator operations attempted, in order
    thrown,      \* per call: the exception raised in the call, if any
    viewport,    \* per call: page.getViewport({ scale })
    canvas,      \* per call: the canvas element
    renderTask,  \* per call: the RenderTask page.render() returned
    exportSaw,   \* per call: the RenderTask's state when toBlob was called
    srcAtLoad,   \* per call: workerSrc when getDocument was called
    blob         \* per call: what the toBlob callback was called with

vars == <<env, workerSrc, urlStore, pc, file, promise, ops, thrown, viewport,
          canvas, renderTask, exportSaw, srcAtLoad, blob>>

NoThrow == [raised |-> FALSE, step |-> "", err |-> NoError]

Pending == [state |-> "pending", value |-> NoResult, reason |-> NoError]
Fulfilled(r) == [state |-> "fulfilled", value |-> r, reason |-> NoError]
Rejected(e) == [state |-> "rejected", value |-> NoResult, reason |-> e]

Init ==
    /\ env \in [window : BOOLEAN, document : BOOLEAN]
    /\ workerSrc = UnsetWorkerSrc
    /\ urlStore = {}
    /\ pc = [c \in Calls |-> "idle"]
    /\ file = [c \in Calls |-> <<>>]
    /\ promise = [c \in Calls |-> [state |-> "none", value |-> NoResult, reason |-> NoError]]
    /\ ops = [c \in Calls |-> <<>>]
    /\ thrown = [c \in Calls |-> NoThrow]
    /\ viewport = [c \in Calls |-> NoViewport]
    /\ canvas = [c \in Calls |-> NoCanvas]
    /\ renderTask = [c \in Calls |-> "none"]
    /\ exportSaw = [c \in Calls |-> "none"]
    /\ srcAtLoad = [c \in Calls |-> UnsetWorkerSrc]
    /\ blob = [c \in Calls |-> "none"]


\* ------------------------------------------------------- code conditions
\* typeof window === "undefined" && typeof document === "undefined"
BrowserMissingBoth(e) == ~e.window /\ ~e.document

\* typeof window === "undefined" || typeof document === "undefined"
BrowserMissing(e) == ~e.window \/ ~e.document

\* the assignment to GlobalWorkerOptions.workerSrc left out
WorkerSrcKept(current) == current

\* pdfjsLib.GlobalWorkerOptions.workerSrc = pdfWorker.default
WorkerSrcAfterImport(current) == WorkerUrl

\* the check of the context left out
ContextNeverMissing(context) == FALSE

\* !context
ContextMissing(context) == ~context

\* the object URL revoked as soon as it was created
UrlsAfterRevoke(store, url) == store \ {url}

\* URL.createObjectURL(blob) adds the URL to the browser's store; nothing removes it
UrlsAfterCreate(store, url) == store \cup {url}

\* pdfjsLib.getDocument(...).promise settles well only with the worker configured
DocumentLoads(src) == src = WorkerUrl

\* --------------------------------------------------------------- helpers
Did(c, names) == ops' = [ops EXCEPT ![c] = @ \o names]

Goto(c, label) == pc' = [pc EXCEPT ![c] = label]

Raise(c, step, e) == thrown' = [thrown EXCEPT ![c] = [raised |-> TRUE, step |-> step, err |-> e]]

\* catch (err) { return { imageUrl: "", file: null, error: ... } }
Catch(c, step, e) ==
    /\ Raise(c, step, e)
    /\ promise' = [promise EXCEPT ![c] = Fulfilled(CatchResult(e))]
    /\ Goto(c, "done")

\* --------------------------------------------------------------- actions
\* The call itself: the guard, then the code up to the first await.
Invoke(c, w) ==
    /\ pc[c] = "idle"
    /\ \E name \in w.names : file' = [file EXCEPT ![c] = name]
    /\ IF BrowserMissing(env)
       THEN /\ promise' = [promise EXCEPT ![c] = Fulfilled(SsrResult)]
            /\ Goto(c, "done")
            /\ UNCHANGED ops
       ELSE /\ promise' = [promise EXCEPT ![c] = Pending]
            /\ Goto(c, "import_lib")
            /\ Did(c, <<"import pdfjs-dist">>)
    /\ UNCHANGED <<env, blob, workerSrc, urlStore, thrown, viewport, canvas, renderTask,
                   exportSaw, srcAtLoad>>

\* await import("pdfjs-dist") settles.
ImportLibSettles(c, w) ==
    /\ pc[c] = "import_lib"
    /\ \/ /\ Goto(c, "import_worker")
          /\ Did(c, <<"import pdf.worker">>)
          /\ UNCHANGED <<promise, thrown>>
       \/ /\ \E e \in w.throws : Catch(c, "import pdfjs-dist", e)
          /\ UNCHANGED ops
    /\ UNCHANGED <<env, blob, workerSrc, urlStore, file, viewport, canvas, renderTask,
                   exportSaw, srcAtLoad>>

\* await import("pdfjs-dist/build/pdf.worker.min.mjs?url") settles; workerSrc is set
\* and file.arrayBuffer() is called.
ImportWorkerSettles(c, w) ==
    /\ pc[c] = "import_worker"
    /\ \/ /\ workerSrc' = WorkerSrcAfterImport(workerSrc)
          /\ Goto(c, "read_bytes")
          /\ Did(c, <<"arrayBuffer">>)
          /\ UNCHANGED <<promise, thrown>>
       \/ /\ \E e \in w.throws : Catch(c, "import pdf.worker", e)
          /\ UNCHANGED <<ops, workerSrc>>
    /\ UNCHANGED <<env, blob, urlStore, file, viewport, canvas, renderTask, exportSaw,
                   srcAtLoad>>

\* await file.arrayBuffer() settles; getDocument is called.
ArrayBufferSettles(c, w) ==
    /\ pc[c] = "read_bytes"
    /\ \/ /\ srcAtLoad' = [srcAtLoad EXCEPT ![c] = workerSrc]
          /\ Goto(c, "load_document")
          /\ Did(c, <<"getDocument">>)
          /\ UNCHANGED <<promise, thrown>>
       \/ /\ \E e \in w.throws : Catch(c, "arrayBuffer", e)
          /\ UNCHANGED <<ops, srcAtLoad>>
    /\ UNCHANGED <<env, blob, workerSrc, urlStore, file, viewport, canvas, renderTask,
                   exportSaw>>

\* await pdfjsLib.getDocument({ data }).promise settles; getPage(1) is called.
GetDocumentSettles(c, w) ==
    /\ pc[c] = "load_document"
    /\ \/ /\ DocumentLoads(srcAtLoad[c])
          /\ Goto(c, "get_page")
          /\ Did(c, <<"getPage">>)
          /\ UNCHANGED <<promise, thrown>>
       \/ /\ \E e \in w.throws : Catch(c, "getDocument", e)
          /\ UNCHANGED ops
    /\ UNCHANGED <<env, blob, workerSrc, urlStore, file, viewport, canvas, renderTask,
                   exportSaw, srcAtLoad>>

\* await pdf.getPage(1) settles; the viewport, the canvas, its context and its
\* size follow, and page.render() is called. The code awaits the RenderTask
\* itself, not its .promise (compare getDocument(...).promise): a RenderTask is
\* no thenable, so the await resumes at the next microtask, whatever the
\* rendering does.
GetPageSettles(c, w) ==
    /\ pc[c] = "get_page"
    /\ \/ /\ \E e \in w.throws : Catch(c, "getPage", e)
          /\ UNCHANGED <<ops, viewport, canvas, renderTask>>
       \/ \E page \in w.pages, context \in BOOLEAN :
            /\ viewport' = [viewport EXCEPT ![c] = Viewport(page)]
            /\ IF ContextMissing(context)
               THEN /\ canvas' = [canvas EXCEPT ![c] =
                           [created |-> TRUE, context |-> context,
                            width |-> 300, height |-> 150]]
                    /\ Did(c, <<"getViewport", "createElement", "getContext">>)
                    /\ Catch(c, "getContext", ContextError)
                    /\ UNCHANGED renderTask
               ELSE /\ canvas' = [canvas EXCEPT ![c] =
                           [created |-> TRUE, context |-> context,
                            width |-> ToUnsignedLong(Viewport(page).width),
                            height |-> ToUnsignedLong(Viewport(page).height)]]
                    /\ Did(c, <<"getViewport", "createElement", "getContext", "render">>)
                    /\ \/ /\ renderTask' = [renderTask EXCEPT ![c] = "running"]
                          /\ Goto(c, "await_render")
                          /\ UNCHANGED <<promise, thrown>>
                       \/ /\ \E e \in w.throws : Catch(c, "render", e)
                          /\ UNCHANGED renderTask
    /\ UNCHANGED <<env, blob, workerSrc, urlStore, file, exportSaw, srcAtLoad>>

\* The PDF engine finishes (or gives up) rendering: RenderTask.promise settles.
\* Nothing in the call listens to it.
RenderTaskSettles(c, w) ==
    /\ renderTask[c] = "running"
    /\ \E outcome \in w.renders :
         renderTask' = [renderTask EXCEPT ![c] = outcome]
    /\ UNCHANGED <<env, blob, workerSrc, urlStore, pc, file, promise, ops, thrown, viewport,
                   canvas, exportSaw, srcAtLoad>>

\* The microtask after `await page.render(...)`: return new Promise(...), whose
\* executor calls canvas.toBlob. A throw inside the executor rejects the new
\* promise, which the function returns without awaiting it: the catch is not run.
ResumeAfterRender(c, w) ==
    /\ pc[c] = "await_render"
    /\ exportSaw' = [exportSaw EXCEPT ![c] = renderTask[c]]
    /\ Did(c, <<"toBlob">>)
    /\ \/ /\ Goto(c, "encode")
          /\ UNCHANGED <<promise, thrown>>
       \/ \E e \in w.throws :
            /\ Raise(c, "toBlob", e)
            /\ promise' = [promise EXCEPT ![c] = Rejected(e)]
            /\ Goto(c, "done")
    /\ UNCHANGED <<env, blob, workerSrc, urlStore, file, viewport, canvas, renderTask,
                   srcAtLoad>>

\* The browser calls the toBlob callback. An exception inside it leaves the
\* callback without resolve having been called.
ToBlobCallback(c, w) ==
    /\ pc[c] = "encode"
    /\ Goto(c, "done")
    /\ \/ /\ blob' = [blob EXCEPT ![c] = "null"]
          /\ promise' = [promise EXCEPT ![c] = Fulfilled(BlobFailureResult)]
          /\ UNCHANGED <<ops, thrown, urlStore>>
       \/ /\ blob' = [blob EXCEPT ![c] = "blob"]
          /\ Did(c, <<"new File", "createObjectURL">>)
          /\ urlStore' = UrlsAfterCreate(urlStore, ObjectUrl(c))
          /\ promise' = [promise EXCEPT ![c] =
                 Fulfilled(SuccessResult(ObjectUrl(c), ImageFile(file[c], c)))]
          /\ UNCHANGED thrown
       \/ \E e \in w.throws :
            /\ blob' = [blob EXCEPT ![c] = "blob"]
            /\ Did(c, <<"new File">>)
            /\ Raise(c, "new File", e)
            /\ UNCHANGED <<promise, urlStore>>
       \/ \E e \in w.throws :
            /\ blob' = [blob EXCEPT ![c] = "blob"]
            /\ Did(c, <<"new File", "createObjectURL">>)
            /\ Raise(c, "createObjectURL", e)
            /\ UNCHANGED <<promise, urlStore>>
    /\ UNCHANGED <<env, workerSrc, file, viewport, canvas, renderTask, exportSaw,
                   srcAtLoad>>

Step(c, w) ==
    \/ Invoke(c, w)
    \/ ImportLibSettles(c, w)
    \/ ImportWorkerSettles(c, w)
    \/ ArrayBufferSettles(c, w)
    \/ GetDocumentSettles(c, w)
    \/ GetPageSettles(c, w)
    \/ RenderTaskSettles(c, w)
    \/ ResumeAfterRender(c, w)
    \/ ToBlobCallback(c, w)

\* One call, every outcome of every collaborator.
Next == \E c \in SoloCalls : Step(c, World)

Spec == Init /\ [][Next]_vars

\* The file name derivation: the first call waits for the toBlob callback, its
\* input file named by any of Names.
OpsUpToExport ==
    <<"import pdfjs-dist", "import pdf.worker", "arrayBuffer", "getDocument", "getPage",
      "getViewport", "createElement", "getContext", "render", "toBlob">>

InitAtExport ==
    /\ env = [window |-> TRUE, document |-> TRUE]
    /\ workerSrc = WorkerUrl
    /\ urlStore = {}
    /\ pc = [c \in Calls |-> IF c \in SoloCalls THEN "encode" ELSE "idle"]
    /\ \E name \in Names : file = [c \in Calls |-> IF c \in SoloCalls THEN name ELSE <<>>]
    /\ promise = [c \in Calls |-> IF c \in SoloCalls THEN Pending
                   ELSE [state |-> "none", value |-> NoResult, reason |-> NoError]]
    /\ ops = [c \in Calls |-> IF c \in SoloCalls THEN OpsUpToExport ELSE <<>>]
    /\ thrown = [c \in Calls |-> NoThrow]
    /\ viewport = [c \in Calls |-> IF c \in SoloCalls THEN Viewport(<<1, 2>>) ELSE NoViewport]
    /\ canvas = [c \in Calls |-> IF c \in SoloCalls
                   THEN [created |-> TRUE, context |-> TRUE,
                         width |-> ToUnsignedLong(Viewport(<<1, 2>>).width),
                         height |-> ToUnsignedLong(Viewport(<<1, 2>>).height)]
                   ELSE NoCanvas]
    /\ renderTask = [c \in Calls |-> IF c \in SoloCalls THEN "completed" ELSE "none"]
    /\ exportSaw = [c \in Calls |-> IF c \in SoloCalls THEN "running" ELSE "none"]
    /\ srcAtLoad = [c \in Calls |-> IF c \in SoloCalls THEN WorkerUrl ELSE UnsetWorkerSrc]
    /\ blob = [c \in Calls |-> "none"]

NextNames == \E c \in SoloCalls : ToBlobCallback(c, World)

SpecNames == InitAtExport /\ [][NextNames]_vars

\* NumCalls calls interleaved at their suspension points.
NextConcurrent == \E c \in Calls : Step(c, ConcurrentWorld)

SpecConcurrent == Init /\ [][NextConcurrent]_vars


\* ---------------------------------------------------------------- claims
Has(seq, x) == \E i \in 1..Len(seq) : seq[i] = x

Count(seq, x) == Cardinality({ i \in 1..Len(seq) : seq[i] = x })

Returned(c) == promise[c].state = "fulfilled"

IsSuccess(r) == r.imageUrl # <<>> /\ ~r.file.isNull /\ ~r.hasError

IsFailure(r) == r.imageUrl = <<>> /\ r.file.isNull /\ r.hasError /\ r.error # <<>>

FailureWith(c, pieces) ==
    /\ Returned(c)
    /\ promise[c].value.imageUrl = <<>>
    /\ promise[c].value.file.isNull
    /\ promise[c].value.hasError
    /\ promise[c].value.error = pieces

\* C1: every result convertPdfToImage returns is a success triple (imageUrl
\* non-empty, file non-null, no error) or a failure triple (imageUrl "", file
\* null, error a non-empty string), never a mix of the two.
C1_ResultShape ==
    \A c \in Calls :
        Returned(c) =>
            /\ IsSuccess(promise[c].value) \/ IsFailure(promise[c].value)
            /\ ~(IsSuccess(promise[c].value) /\ IsFailure(promise[c].value))
            /\ promise[c].value.hasError <=> promise[c].value.file.isNull
            /\ promise[c].value.hasError <=> promise[c].value.imageUrl = <<>>

C1_Witness ==
    \E c \in Calls : Returned(c) /\ blob[c] = "null" /\ IsFailure(promise[c].value)

\* C2: once every collaborator operation of a call has returned, thrown or
\* called back, the promise the call returned is fulfilled with a result, and
\* it is never rejected, whichever step failed (a throw by canvas.toBlob or
\* inside the toBlob callback included).
C2_Total ==
    \A c \in Calls :
        /\ promise[c].state # "rejected"
        /\ pc[c] = "done" => Returned(c)

\* C3: where window or document is undefined the call returns the failure
\* result with the error "PDF conversion must run in the browser (DOM APIs not
\* available)." and attempts no collaborator operation: nothing is imported,
\* workerSrc keeps its value, no bytes are read, no canvas and no object URL
\* is created.
C3_NonBrowser ==
    (~env.window \/ ~env.document) =>
        /\ workerSrc = ""
        /\ urlStore = {}
        /\ \A c \in Calls :
            /\ ops[c] = <<>>
            /\ ~canvas[c].created
            /\ pc[c] \in {"idle", "done"}
            /\ pc[c] = "done" =>
                 FailureWith(c, <<"PDF conversion must run in the browser (DOM APIs not available).">>)

C3_Witness ==
    \E c \in Calls : env.window /\ ~env.document /\ pc[c] = "done" /\ Returned(c)

\* C4: an exception raised at any step of a browser-context call (import,
\* byte read, document load, getPage, render, encode, File, object URL) ends
\* the call with the failure result whose error is "Failed to convert PDF: "
\* followed by the exception's message, or by its string form when it has no
\* message; a rendering that fails does so too.
C4_AllCaught ==
    \A c \in Calls :
        pc[c] = "done" =>
            /\ thrown[c].raised =>
                 FailureWith(c, <<"Failed to convert PDF: ">> \o
                     (IF thrown[c].err.message # <<>> THEN thrown[c].err.message
                      ELSE thrown[c].err.str))
            /\ renderTask[c] = "failed" => Returned(c) /\ IsFailure(promise[c].value)

\* C5: when toBlob calls back with no blob the call returns the failure result
\* whose error is exactly "Failed to create image blob", with no prefix, and
\* the call builds no File and creates no object URL.
C5_NoBlob ==
    \A c \in Calls :
        blob[c] = "null" =>
            /\ FailureWith(c, <<"Failed to create image blob">>)
            /\ ~Has(ops[c], "new File")
            /\ ~Has(ops[c], "createObjectURL")
            /\ urlStore \cap {promise[c].value.imageUrl, <<"blob:", ToString(c)>>} = {}

C5_Witness ==
    \E c \in Calls : blob[c] = "null" /\ pc[c] = "done" /\ Has(ops[c], "toBlob")

EndsWithPdfAnyCase(name) ==
    /\ Len(name) >= 4
    /\ name[Len(name) - 3] = "."
    /\ name[Len(name) - 2] \in {"p", "P"}
    /\ name[Len(name) - 1] \in {"d", "D"}
    /\ name[Len(name)] \in {"f", "F"}

\* C6: on every successful conversion the output file's name is the input
\* name with one trailing ".pdf" (in any letter case, only at the very end)
\* removed and ".png" appended, and its MIME type is "image/png":
\* "invoice.PDF" gives "invoice.png", "report" gives "report.png", a name with
\* ".pdf" only in the middle is kept whole.
C6_FileName ==
    \A c \in Calls :
        (Returned(c) /\ IsSuccess(promise[c].value)) =>
            LET out == promise[c].value.file.name
                stem == SubSeq(out, 1, Len(out) - 4)
            IN  /\ promise[c].value.file.type = "image/png"
                /\ Len(out) = Len(stem) + 4
                /\ SubSeq(out, Len(out) - 3, Len(out)) = <<".", "p", "n", "g">>
                /\ IF EndsWithPdfAnyCase(file[c])
                   THEN /\ Len(stem) = Len(file[c]) - 4
                        /\ stem = SubSeq(file[c], 1, Len(stem))
                   ELSE stem = file[c]
                /\ file[c] = <<"i", "n", "v", "o", "i", "c", "e", ".", "P", "D", "F">>
                     => out = <<"i", "n", "v", "o", "i", "c", "e", ".", "p", "n", "g">>
                /\ file[c] = <<"r", "e", "p", "o", "r", "t">>
                     => out = <<"r", "e", "p", "o", "r", "t", ".", "p", "n", "g">>
                /\ file[c] = <<".", "p", "d", "f", "x">>
                     => out = <<".", "p", "d", "f", "x", ".", "p", "n", "g">>

C6_Witness ==
    \E c \in Calls :
        /\ Returned(c)
        /\ file[c] = <<"i", "n", "v", "o", "i", "c", "e", ".", "P", "D", "F">>
        /\ promise[c].value.file.name = <<"i", "n", "v", "o", "i", "c", "e", ".", "p", "n", "g">>

\* C7: when the 2D context of the fresh canvas cannot be acquired the call
\* fails with the error "Failed to get 2D canvas context", the error the
\* returned failure result carries behind the catch's "Failed to convert
\* PDF: ", and the call neither renders the page nor exports the canvas nor
\* creates an object URL.
C7_NoContext ==
    \A c \in Calls :
        (canvas[c].created /\ ~canvas[c].context) =>
            /\ thrown[c].raised
            /\ thrown[c].step = "getContext"
            /\ thrown[c].err.message = <<"Failed to get 2D canvas context">>
            /\ FailureWith(c, <<"Failed to convert PDF: ", "Failed to get 2D canvas context">>)
            /\ pc[c] = "done"
            /\ ~Has(ops[c], "render")
            /\ ~Has(ops[c], "toBlob")
            /\ ~Has(ops[c], "createObjectURL")
            /\ renderTask[c] = "none"
            /\ <<"blob:", ToString(c)>> \notin urlStore

C7_Witness ==
    \E c \in Calls : canvas[c].created /\ ~canvas[c].context /\ Has(ops[c], "getContext")

\* What call c returns from its own input and its own collaborators' answers.
OwnResult(c) ==
    IF thrown[c].raised THEN CatchResult(thrown[c].err)
    ELSE IF blob[c] = "null" THEN Failure(BlobError)
    ELSE IF blob[c] = "blob" THEN SuccessResult(ObjectUrl(c), ImageFile(file[c], c))
    ELSE SsrResult

\* C8: however concurrent calls interleave at their suspension points, the
\* state they share is workerSrc alone, every write gives it the same value,
\* each call's result is the one its own input and collaborators determine, and
\* no call hands its document to the PDF engine before workerSrc holds the
\* worker location.
C8_Independent ==
    /\ workerSrc \in {"", "/assets/pdf.worker.min.mjs"}
    /\ (\E c \in Calls : Has(ops[c], "arrayBuffer")) => workerSrc = "/assets/pdf.worker.min.mjs"
    /\ \A c \in Calls :
        /\ Has(ops[c], "getDocument") => srcAtLoad[c] = "/assets/pdf.worker.min.mjs"
        /\ Returned(c) => promise[c].value = OwnResult(c)
        /\ (Returned(c) /\ IsSuccess(promise[c].value)) =>
              /\ promise[c].value.file.blob = c
              /\ \A d \in Calls \ {c} :
                    Returned(d) => promise[d].value.imageUrl # promise[c].value.imageUrl

C8_Witness ==
    \E c, d \in Calls :
        /\ c # d
        /\ Returned(c) /\ IsSuccess(promise[c].value)
        /\ Returned(d) /\ IsSuccess(promise[d].value)
        /\ file[c] # file[d]

\* C9: within a call toBlob is started only after the rendering of page 1 has
\* completed, render is started only after the 2D context was acquired and the
\* canvas was given the viewport's width and height at scale 3, and no
\* collaborator operation is attempted twice.
C9_Ordered ==
    \A c \in Calls :
        /\ Has(ops[c], "toBlob") => exportSaw[c] = "completed"
        /\ Has(ops[c], "render") =>
              /\ canvas[c].context
              /\ \E page \in PageSizes :
                    /\ viewport[c] = [width |-> 3 * page[1], height |-> 3 * page[2]]
                    /\ canvas[c].width = viewport[c].width \div 2
                    /\ canvas[c].height = viewport[c].height \div 2
        /\ \A i, j \in 1..Len(ops[c]) : ops[c][i] = ops[c][j] => i = j

\* C10: a call creates an object URL at most once, only after the export gave
\* a blob and the File was built; a call that returned a failure created none,
\* a call that returned a success created exactly one, for the blob its File
\* wraps, and no object URL is ever revoked.
C10_ObjectUrls ==
    \A c \in Calls :
        /\ Count(ops[c], "createObjectURL") <= 1
        /\ Has(ops[c], "createObjectURL") =>
              /\ blob[c] = "blob"
              /\ \E i, j \in 1..Len(ops[c]) :
                    i < j /\ ops[c][i] = "new File" /\ ops[c][j] = "createObjectURL"
        /\ <<"blob:", ToString(c)>> \in urlStore => Has(ops[c], "createObjectURL")
        /\ (Returned(c) /\ promise[c].value.hasError) =>
              /\ ~Has(ops[c], "createObjectURL")
              /\ <<"blob:", ToString(c)>> \notin urlStore
        /\ (Returned(c) /\ ~promise[c].value.hasError) =>
              /\ Count(ops[c], "createObjectURL") = 1
              /\ promise[c].value.imageUrl = <<"blob:", ToString(promise[c].value.file.blob)>>
              /\ promise[c].value.imageUrl \in urlStore

C10_Witness ==
    \E c, d \in Calls :
        /\ c # d
        /\ Returned(c) /\ IsSuccess(promise[c].value)
        /\ promise[c].value.imageUrl \in urlStore
        /\ pc[d] = "done" /\ Returned(d) /\ promise[d].value.hasError

====
